---- MODULE Spec2Model ----
(***************************************************************************)
(* Jobly: the partial-update SQL helper (helpers/sql.js), the admin gate   *)
(* (middleware/auth.js), the job routes (routes/jobs.js) and the Job model *)
(* (models/job.js) over a jobs table.                                      *)
(***************************************************************************)
EXTENDS Integers, Sequences, FiniteSets, TLC

VARIABLES
    dataToUpdate,   \* sqlForPartialUpdate: first argument (a JS object)
    jsToSql,        \* sqlForPartialUpdate: second argument (a JS object)
    sqlResult,      \* sqlForPartialUpdate: what the call returned or threw
    jobs,           \* the jobs table: a set of rows
    jobSeq,         \* the last value the id sequence of the jobs table issued
    inflight,       \* per handler: the Job.create call awaiting its INSERT
    response,       \* the outcome of the request that finished last
    removed,        \* history: the ids Job.remove has deleted
    found,          \* Job.findAll: the call made last, its statement and result
    served,         \* the route whose handler took the last step
    authorization,  \* authenticateJWT: the authorization header of the request
    locals,         \* authenticateJWT: res.locals and how the middleware ended
    companyQuery,   \* GET /companies: req.query
    companyList,    \* GET /companies: how the request ended
    calls           \* per handler: the Job.update or Job.remove call it is making

sqlVars == <<dataToUpdate, jsToSql, sqlResult>>
storeVars == <<jobs, jobSeq, inflight, response, removed>>
authVars == <<authorization, locals>>
companyVars == <<companyQuery, companyList>>
vars == <<dataToUpdate, jsToSql, sqlResult, jobs, jobSeq, inflight, response, removed, found,
          served, authorization, locals, companyQuery, companyList, calls>>

(***************************************************************************)
(* Bounds.                                                                 *)
(***************************************************************************)
MaxKeys == 2        \* most keys of a field map handed to sqlForPartialUpdate
MaxId == 2          \* the id sequence is followed up to this value

(***************************************************************************)
(* JavaScript values.  Every value is a record of the same shape so that   *)
(* values of different JS types can be compared: t is the typeof tag, n    *)
(* the payload of a number, s the payload of a string (for a function: its *)
(* source text, which is what a template literal renders).                 *)
(***************************************************************************)
Undefined == [t |-> "undefined", n |-> 0, s |-> ""]
Null == [t |-> "null", n |-> 0, s |-> ""]
Num(k) == [t |-> "number", n |-> k, s |-> ""]
Str(x) == [t |-> "string", n |-> 0, s |-> x]
Bool(b) == [t |-> "boolean", n |-> (IF b THEN 1 ELSE 0), s |-> ""]
Fn(src) == [t |-> "function", n |-> 0, s |-> src]

\* ToBoolean: what `if (v)` and `v || w` test.
Truthy(v) ==
    CASE v.t = "undefined" -> FALSE
      [] v.t = "null" -> FALSE
      [] v.t = "number" -> v.n # 0
      [] v.t = "string" -> v.s # ""
      [] v.t = "boolean" -> v.n = 1
      [] OTHER -> TRUE

\* ToString: what `${v}` renders.
TemplateText(v) ==
    CASE v.t = "string" -> v.s
      [] v.t = "number" -> ToString(v.n)
      [] v.t = "function" -> v.s
      [] v.t = "boolean" -> (IF v.n = 1 THEN "true" ELSE "false")
      [] OTHER -> v.t

(***************************************************************************)
(* A JS object literal is the sequence of its own entries [k, v] in the    *)
(* order Object.keys lists them; its keys are distinct.                    *)
(***************************************************************************)
ObjectKeys(obj) == [i \in 1..Len(obj) |-> obj[i].k]
ObjectValues(obj) == [i \in 1..Len(obj) |-> obj[i].v]
HasOwn(obj, key) == \E i \in 1..Len(obj) : obj[i].k = key

\* Properties every object literal inherits from Object.prototype.
ObjectPrototype == <<[k |-> "toString", v |-> Fn("function toString() { [native code] }")]>>

\* obj[key]: the own property, else the inherited one, else undefined.
GetProp(obj, key) ==
    IF HasOwn(obj, key)
    THEN obj[CHOOSE i \in 1..Len(obj) : obj[i].k = key].v
    ELSE IF HasOwn(ObjectPrototype, key)
         THEN ObjectPrototype[CHOOSE i \in 1..Len(ObjectPrototype) : ObjectPrototype[i].k = key].v
         ELSE Undefined

RECURSIVE Join(_, _)
\* Array.prototype.join on an array of strings.
Join(arr, sep) ==
    IF Len(arr) = 0 THEN ""
    ELSE IF Len(arr) = 1 THEN arr[1]
    ELSE arr[1] \o sep \o Join(Tail(arr), sep)

(***************************************************************************)
(* helpers/sql.js                                                          *)
(***************************************************************************)
\* A plausible slip: the placeholder numbered from the 0-based index.
ColEntryZeroBased(map, colName, idx) ==
    LET mapped == GetProp(map, colName)
        name == IF Truthy(mapped) THEN TemplateText(mapped) ELSE colName
    IN "\"" \o name \o "\"=$" \o ToString(idx)

\* `"${jsToSql[colName] || colName}"=$${idx + 1}`, idx the 0-based index.
ColEntry(map, colName, idx) ==
    LET mapped == GetProp(map, colName)
        name == IF Truthy(mapped) THEN TemplateText(mapped) ELSE colName
    IN "\"" \o name \o "\"=$" \o ToString(idx + 1)

\* A plausible slip: the guard on the empty key list left out.
sqlForPartialUpdateNoGuard(data, map) ==
    LET keys == ObjectKeys(data)
        cols == [i \in 1..Len(keys) |-> ColEntry(map, keys[i], i - 1)]
    IN [kind |-> "return", error |-> "", message |-> "",
        setCols |-> Join(cols, ", "), values |-> ObjectValues(data)]

sqlForPartialUpdate(data, map) ==
    LET keys == ObjectKeys(data)
        cols == [i \in 1..Len(keys) |-> ColEntry(map, keys[i], i - 1)]
    IN IF Len(keys) = 0
       THEN [kind |-> "throw", error |-> "BadRequestError", message |-> "No data",
             setCols |-> "", values |-> <<>>]
       ELSE [kind |-> "return", error |-> "", message |-> "",
             setCols |-> Join(cols, ", "), values |-> ObjectValues(data)]

\* The mapping Job.update passes.
JobJsToSql ==
    <<[k |-> "title", v |-> Str("title")],
      [k |-> "salary", v |-> Str("salary")],
      [k |-> "equity", v |-> Str("equity")]>>

(***************************************************************************)
(* middleware/auth.js.  The authorization header is absent or the text     *)
(* `<scheme> <token>`; a token carries the key it was signed with and its   *)
(* payload's isAdmin field.                                                *)
(***************************************************************************)
SECRET_KEY == "secret"

NoUser == [present |-> FALSE, isAdmin |-> Undefined]
NoHeader == [present |-> FALSE, scheme |-> "", key |-> "", isAdmin |-> Undefined]
Header(scheme, key, isAdmin) ==
    [present |-> TRUE, scheme |-> scheme, key |-> key, isAdmin |-> isAdmin]

\* authHeader.replace(/^[Bb]earer /, "").trim() leaves the bare token exactly
\* when the header is the token alone or the token after Bearer/bearer;
\* jwt.verify then throws unless the token was signed with SECRET_KEY.
TokenVerifies(header) ==
    /\ header.scheme \in {"Bearer", "bearer", ""}
    /\ header.key = SECRET_KEY

\* A plausible slip: the token decoded without its signature being verified.
authenticateJWTDecodeOnly(header) ==
    IF header.present
    THEN [present |-> TRUE, isAdmin |-> header.isAdmin]
    ELSE NoUser

\* res.locals.user when authenticateJWT has called next().
authenticateJWT(header) ==
    IF header.present /\ TokenVerifies(header)
    THEN [present |-> TRUE, isAdmin |-> header.isAdmin]
    ELSE NoUser

ensureLoggedIn(user) == user.present

\* A plausible slip: the isAdmin test left out.
ensureAdminAnyUser(user) == user.present

ensureAdmin(user) == user.present /\ Truthy(user.isAdmin)

\* The middleware chain in front of the job write routes: "next" or the
\* error handed to next(err).
AdminGate(header) ==
    LET user == authenticateJWT(header)
    IN IF ~ensureLoggedIn(user) THEN "UnauthorizedError"
       ELSE IF ~ensureAdmin(user) THEN "UnauthorizedError"
       ELSE "next"

(***************************************************************************)
(* The jobs table.  A row is what the driver hands back for it: id and     *)
(* salary (INTEGER) as numbers, equity (NUMERIC) as decimal text, NULL as  *)
(* null.                                                                   *)
(***************************************************************************)
JobColumns == {"id", "title", "salary", "equity", "company_handle"}
NoRow == [id |-> 0, title |-> "", salary |-> Null, equity |-> Null, company_handle |-> ""]

\* The value an INTEGER column holds for a bound parameter.
ToInteger(v) == IF v.t \in {"undefined", "null"} THEN Null ELSE v

\* The value a NUMERIC column holds for a bound parameter, as the driver
\* reads it back: the decimal text of the number.
ToNumeric(v) ==
    IF v.t \in {"undefined", "null"} THEN Null
    ELSE IF v.t = "number" THEN Str(ToString(v.n))
    ELSE v

\* parseFloat on the decimal texts the model stores.
DecimalRange == 0..9
parseFloat(v) ==
    IF v.t = "number" THEN v
    ELSE IF v.t = "string" /\ \E k \in DecimalRange : ToString(k) = v.s
         THEN Num(CHOOSE k \in DecimalRange : ToString(k) = v.s)
         ELSE [t |-> "number", n |-> 0, s |-> "NaN"]

\* if (job.equity !== null) job.equity = parseFloat(job.equity)
NormalizeEquity(job) ==
    IF job.equity # Null THEN [job EXCEPT !.equity = parseFloat(job.equity)] ELSE job

\* A plausible slip: the two parameters of the duplicate check swapped.
SelectDuplicateSwapped(table, title, company_handle) ==
    {r \in table : r.title = TemplateText(company_handle)
                   /\ r.company_handle = TemplateText(title)}

\* SELECT title FROM jobs WHERE title = $1 AND company_handle = $2
SelectDuplicate(table, title, company_handle) ==
    {r \in table : r.title = TemplateText(title)
                   /\ r.company_handle = TemplateText(company_handle)}

\* INSERT INTO jobs (title, salary, equity, company_handle) VALUES ($1..$4)
\* RETURNING ...: the row inserted; the id column takes the sequence's next value.
InsertRow(seq, title, salary, equity, company_handle) ==
    [id |-> seq + 1,
     title |-> TemplateText(title),
     salary |-> ToInteger(salary),
     equity |-> ToNumeric(equity),
     company_handle |-> TemplateText(company_handle)]

\* A plausible slip: the WHERE clause left out of the SELECT.
SelectByIdNoWhere(table, id) == table

\* SELECT ... FROM jobs WHERE id = $1
SelectById(table, id) == {r \in table : r.id = id}

\* A plausible slip: the statement reads the row and deletes nothing.
DeleteByIdKeeps(table, id) == table

\* A plausible slip: the WHERE clause left out of the DELETE.
DeleteByIdNoWhere(table, id) == {}

\* DELETE FROM jobs WHERE id = $1: the table afterwards.
\* A plausible slip: a statement that reports the row and leaves it stored.
DeleteByIdKeepsRow(table, id) == table

DeleteById(table, id) == {r \in table : r.id # id}

(***************************************************************************)
(* UPDATE jobs SET <setCols> WHERE id = $<n> RETURNING ...: the store      *)
(* reads the assignments back out of the statement text.                   *)
(***************************************************************************)
StartsWith(text, prefix) ==
    Len(text) >= Len(prefix) /\ SubSeq(text, 1, Len(prefix)) = prefix
DropPrefix(text, prefix) == SubSeq(text, Len(prefix) + 1, Len(text))

SqlIdentifiers == JobColumns \cup {"firstName", "lastName", "age"}
Placeholders == 0..9
AssignmentText(a) == "\"" \o a.col \o "\"=$" \o ToString(a.ph)
SyntaxError == <<[col |-> "", ph |-> 0]>>

RECURSIVE ParseAssignments(_)
ParseAssignments(text) ==
    LET cols == {c \in SqlIdentifiers : StartsWith(text, "\"" \o c \o "\"=$")}
        heads == {a \in [col : cols, ph : Placeholders] :
                    /\ StartsWith(text, AssignmentText(a))
                    /\ LET rest == DropPrefix(text, AssignmentText(a))
                       IN rest = "" \/ StartsWith(rest, ", ")}
    IN IF heads = {} THEN SyntaxError
       ELSE LET a == CHOOSE x \in heads : TRUE
                rest == DropPrefix(text, AssignmentText(a))
            IN IF rest = "" THEN <<a>>
               ELSE LET more == ParseAssignments(DropPrefix(rest, ", "))
                    IN IF more = SyntaxError THEN SyntaxError ELSE <<a>> \o more

\* One column of a row set to a bound parameter.
SetColumn(row, col, v) ==
    CASE col = "id" -> [row EXCEPT !.id = v.n]
      [] col = "title" -> [row EXCEPT !.title = TemplateText(v)]
      [] col = "salary" -> [row EXCEPT !.salary = ToInteger(v)]
      [] col = "equity" -> [row EXCEPT !.equity = ToNumeric(v)]
      [] col = "company_handle" -> [row EXCEPT !.company_handle = TemplateText(v)]

RECURSIVE SetColumns(_, _, _)
SetColumns(row, assigns, params) ==
    IF Len(assigns) = 0 THEN row
    ELSE SetColumns(SetColumn(row, assigns[1].col, params[assigns[1].ph]),
                    Tail(assigns), params)

\* A plausible slip: the WHERE clause left out, so that every row is hit.
ExecAssignmentsNoWhere(table, assigns, idPlaceholder, params) ==
    IF \/ assigns = SyntaxError
       \/ \E i \in 1..Len(assigns) :
             assigns[i].col \notin JobColumns \/ assigns[i].ph \notin 1..Len(params)
    THEN [error |-> TRUE, table |-> table, returning |-> {}]
    ELSE LET new == {SetColumns(r, assigns, params) : r \in table}
         IN [error |-> FALSE, table |-> new,
             returning |-> {r \in new : r.id = params[idPlaceholder].n}]

\* The parsed statement applied: error (the statement is rejected and
\* changes nothing), the table afterwards and the rows RETURNING lists.
ExecAssignments(table, assigns, idPlaceholder, params) ==
    IF \/ assigns = SyntaxError
       \/ \E i \in 1..Len(assigns) :
             assigns[i].col \notin JobColumns \/ assigns[i].ph \notin 1..Len(params)
       \/ idPlaceholder \notin 1..Len(params)
    THEN [error |-> TRUE, table |-> table, returning |-> {}]
    ELSE LET hit == {r \in table : r.id = params[idPlaceholder].n}
             new == {SetColumns(r, assigns, params) : r \in hit}
             after == (table \ hit) \cup new
         IN IF \E r1, r2 \in after : r1.id = r2.id /\ r1 # r2
            THEN [error |-> TRUE, table |-> table, returning |-> {}]
            ELSE [error |-> FALSE, table |-> after, returning |-> new]

(***************************************************************************)
(* Request bodies and the request validation in front of the model.        *)
(***************************************************************************)
Handlers == {"h1", "h2"}
Titles == {"t1", "t2"}
Companies == {"c1", "c2"}
Ids == 1..MaxId

Obj1(k1, v1) == <<[k |-> k1, v |-> v1]>>
Obj2(k1, v1, k2, v2) == <<[k |-> k1, v |-> v1], [k |-> k2, v |-> v2]>>
NewJob(title, salary, equity, company_handle) ==
    <<[k |-> "title", v |-> title], [k |-> "salary", v |-> salary],
      [k |-> "equity", v |-> equity], [k |-> "company_handle", v |-> company_handle]>>

PostBodies ==
    {NewJob(Str(t), Num(1), Num(1), Str(c)) : t \in Titles, c \in Companies}
    \cup {<<[k |-> "title", v |-> Str("t1")], [k |-> "salary", v |-> Num(1)],
            [k |-> "company_handle", v |-> Str("c1")]>>,
          Obj2("salary", Num(1), "company_handle", Str("c1"))}

PatchBodies ==
    {<<>>, Obj1("salary", Num(2)), Obj2("equity", Num(1), "title", Str("t2"))}
    \cup {Obj1("id", Num(i)) : i \in Ids}

\* The SET lists Job.update can send for these bodies, parsed once.
ParsedSetLists ==
    [text \in {sqlForPartialUpdate(body, JobJsToSql).setCols : body \in PatchBodies}
        |-> ParseAssignments(text)]
ParsedAssignments(text) ==
    IF text \in DOMAIN ParsedSetLists THEN ParsedSetLists[text] ELSE ParseAssignments(text)

ExecUpdate(table, setCols, idPlaceholder, params) ==
    ExecAssignments(table, ParsedAssignments(setCols), idPlaceholder, params)

AdminHeader == Header("Bearer", SECRET_KEY, Bool(TRUE))
Headers ==
    {NoHeader,
     AdminHeader,
     Header("Bearer", SECRET_KEY, Bool(FALSE)),
     Header("Bearer", "forged", Bool(TRUE))}

\* The requests that arrive: an admin's with every body and id, and every
\* header with a body and id an admin's request would be served for.
PostRequests ==
    [header : {AdminHeader}, body : PostBodies]
    \cup [header : Headers, body : {NewJob(Str("t1"), Num(1), Num(1), Str("c1"))}]
PatchRequests ==
    [header : {AdminHeader}, id : Ids, body : PatchBodies]
    \cup [header : Headers, id : {1}, body : {Obj1("salary", Num(2))}]
DeleteRequests == [header : {AdminHeader}, id : Ids] \cup [header : Headers, id : {1}]

IsText(v) == v.t = "string"
IsCount(v) == v.t = "number" /\ v.n >= 0
Within(obj, allowed) == \A i \in 1..Len(obj) : obj[i].k \in allowed

\* jsonschema.validate(req.body, jobNewSchema).valid
ValidJobNew(body) ==
    /\ Within(body, {"title", "salary", "equity", "company_handle"})
    /\ HasOwn(body, "title") /\ IsText(GetProp(body, "title"))
    /\ HasOwn(body, "company_handle") /\ IsText(GetProp(body, "company_handle"))
    /\ HasOwn(body, "salary") => IsCount(GetProp(body, "salary"))
    /\ HasOwn(body, "equity") => IsCount(GetProp(body, "equity"))

\* jsonschema.validate(req.body, jobUpdateSchema).valid
ValidJobUpdate(body) ==
    /\ Within(body, {"title", "salary", "equity"})
    /\ HasOwn(body, "title") => IsText(GetProp(body, "title"))
    /\ HasOwn(body, "salary") => IsCount(GetProp(body, "salary"))
    /\ HasOwn(body, "equity") => IsCount(GetProp(body, "equity"))

(***************************************************************************)
(* routes/jobs.js over models/job.js.  A handler runs without interruption *)
(* up to the statement it awaits; the statement is executed by the store   *)
(* in the same step.  Job.create awaits two statements, so its INSERT is a *)
(* step of its own.                                                        *)
(***************************************************************************)
Idle == <<>>
Respond(status, message, job) == [status |-> status, message |-> message, job |-> job]
\* The request ends with an error handed to next(err) and touches nothing.
Fail(error, message) ==
    /\ response' = Respond(error, message, NoRow)
    /\ UNCHANGED <<jobs, jobSeq, inflight, removed>>

\* Job.create up to its first await: the duplicate check.
CreateCheck(h, data) ==
    LET title == GetProp(data, "title")
        company_handle == GetProp(data, "company_handle")
        duplicateCheck == SelectDuplicate(jobs, title, company_handle)
    IN IF duplicateCheck # {}
       THEN Fail("BadRequestError",
                 "Duplicate job: " \o TemplateText(title) \o " already exists for company: "
                     \o TemplateText(company_handle))
       ELSE /\ inflight' = [inflight EXCEPT ![h] = data]
            /\ UNCHANGED <<jobs, jobSeq, response, removed>>

\* POST /jobs: the gate, the body validation, Job.create's duplicate check.
PostJob(h, header, body) ==
    /\ inflight[h] = Idle
    /\ jobSeq + Cardinality({g \in Handlers : inflight[g] # Idle}) < MaxId
    /\ IF AdminGate(header) # "next" THEN Fail(AdminGate(header), "Unauthorized")
       ELSE IF ~ValidJobNew(body)
            THEN Fail("BadRequestError", "jobNew: instance is not valid")
       ELSE CreateCheck(h, body)

\* Job.create after the duplicate check: the INSERT and the response.
CreateInsert(h) ==
    /\ inflight[h] # Idle
    /\ LET data == inflight[h]
           job == InsertRow(jobSeq, GetProp(data, "title"), GetProp(data, "salary"),
                            GetProp(data, "equity"), GetProp(data, "company_handle"))
       IN /\ jobs' = jobs \cup {job}
          /\ jobSeq' = jobSeq + 1
          /\ response' = Respond("201", "", NormalizeEquity(job))
    /\ inflight' = [inflight EXCEPT ![h] = Idle]
    /\ UNCHANGED removed

\* A plausible slip: the test for a missing row left out.
UpdateResultNoCheck(id, result) ==
    IF result.error THEN Fail("DatabaseError", "")
    ELSE /\ jobs' = result.table
         /\ response' =
                Respond("200", "",
                        IF result.returning = {} THEN NoRow
                        ELSE NormalizeEquity(CHOOSE r \in result.returning : TRUE))
         /\ UNCHANGED <<jobSeq, inflight, removed>>

\* Job.update(id, data) once the UPDATE has been executed.
UpdateResult(id, result) ==
    IF result.error THEN Fail("DatabaseError", "")
    ELSE IF result.returning = {} THEN Fail("NotFoundError", "No job: " \o ToString(id))
    ELSE /\ jobs' = result.table
         /\ response' = Respond("200", "", NormalizeEquity(CHOOSE r \in result.returning : TRUE))
         /\ UNCHANGED <<jobSeq, inflight, removed>>

\* A plausible slip: the SET list built without the guard on empty data.
UpdateUnguarded(id, data) ==
    LET built == sqlForPartialUpdateNoGuard(data, JobJsToSql)
    IN UpdateResult(id, ExecUpdate(jobs, built.setCols, Len(built.values) + 1,
                                   built.values \o <<Num(id)>>))

\* Job.update(id, data).
Update(id, data) ==
    LET built == sqlForPartialUpdate(data, JobJsToSql)
    IN IF built.kind = "throw" THEN Fail(built.error, built.message)
       ELSE UpdateResult(id, ExecUpdate(jobs, built.setCols, Len(built.values) + 1,
                                    built.values \o <<Num(id)>>))

\* A plausible slip: the body handed to the model without validation.
PatchJobUnvalidated(header, id, body) ==
    IF AdminGate(header) # "next" THEN Fail(AdminGate(header), "Unauthorized")
    ELSE Update(id, body)

\* PATCH /jobs/:id
PatchJob(header, id, body) ==
    IF AdminGate(header) # "next" THEN Fail(AdminGate(header), "Unauthorized")
    ELSE IF ~ValidJobUpdate(body)
         THEN Fail("BadRequestError", "jobUpdate: instance is not valid")
    ELSE Update(id, body)

\* DELETE /jobs/:id over Job.remove(id).
DeleteJob(header, id) ==
    IF AdminGate(header) # "next" THEN Fail(AdminGate(header), "Unauthorized")
    ELSE IF SelectById(jobs, id) = {}
         THEN Fail("NotFoundError", "No job: " \o ToString(id))
    ELSE /\ jobs' = DeleteById(jobs, id)
         /\ removed' = removed \cup {id}
         /\ response' = Respond("200", "deleted", [NoRow EXCEPT !.id = id])
         /\ UNCHANGED <<jobSeq, inflight>>

\* GET /jobs/:id over Job.get(id).
GetJob(id) ==
    LET jobRes == SelectById(jobs, id)
    IN IF jobRes = {} THEN Fail("NotFoundError", "No job: " \o ToString(id))
       ELSE /\ response' = Respond("200", "", NormalizeEquity(CHOOSE r \in jobRes : TRUE))
            /\ UNCHANGED <<jobs, jobSeq, inflight, removed>>

(***************************************************************************)
(* Job.findAll: the statement it builds.                                   *)
(***************************************************************************)
\* A plausible slip: the placeholder numbered by the predicates so far, not
\* by the values so far.
FindAllClausesByFragments(title, minSalary, hasEquity, companyHandle) ==
    LET v1 == IF Truthy(title) THEN <<Str("%" \o TemplateText(title) \o "%")>> ELSE <<>>
        w1 == IF Truthy(title) THEN <<"title ILIKE $1">> ELSE <<>>
        v2 == IF minSalary # Undefined THEN Append(v1, minSalary) ELSE v1
        w2 == IF minSalary # Undefined
              THEN Append(w1, "salary >= $" \o ToString(Len(w1) + 1)) ELSE w1
        w3 == IF hasEquity = Bool(TRUE) THEN Append(w2, "equity > 0") ELSE w2
        v4 == IF Truthy(companyHandle) THEN Append(v2, companyHandle) ELSE v2
        w4 == IF Truthy(companyHandle)
              THEN Append(w3, "company_handle = $" \o ToString(Len(w3) + 1)) ELSE w3
    IN [whereExpressions |-> w4, queryValues |-> v4]

\* A plausible slip: minSalary tested for truth, so that 0 adds no predicate.
MinSalaryGivenTruthy(minSalary) == Truthy(minSalary)

\* minSalary !== undefined
MinSalaryGiven(minSalary) == minSalary # Undefined

\* The four `if` blocks in order: whereExpressions and queryValues after them.
FindAllClauses(title, minSalary, hasEquity, companyHandle) ==
    LET v1 == IF Truthy(title) THEN <<Str("%" \o TemplateText(title) \o "%")>> ELSE <<>>
        w1 == IF Truthy(title) THEN <<"title ILIKE $" \o ToString(Len(v1))>> ELSE <<>>
        v2 == IF MinSalaryGiven(minSalary) THEN Append(v1, minSalary) ELSE v1
        w2 == IF MinSalaryGiven(minSalary)
              THEN Append(w1, "salary >= $" \o ToString(Len(v2))) ELSE w1
        w3 == IF hasEquity = Bool(TRUE) THEN Append(w2, "equity > 0") ELSE w2
        v4 == IF Truthy(companyHandle) THEN Append(v2, companyHandle) ELSE v2
        w4 == IF Truthy(companyHandle)
              THEN Append(w3, "company_handle = $" \o ToString(Len(v4))) ELSE w3
    IN [whereExpressions |-> w4, queryValues |-> v4]

SelectJobs == "SELECT id, title, salary, equity, company_handle FROM jobs"

\* A plausible slip: the ORDER BY left off the statement.
FindAllQueryUnordered(whereExpressions) ==
    SelectJobs
    \o (IF Len(whereExpressions) > 0
        THEN " WHERE " \o Join(whereExpressions, " AND ") ELSE "")

\* The statement text, runs of white space written as one blank.
FindAllQuery(whereExpressions) ==
    SelectJobs
    \o (IF Len(whereExpressions) > 0
        THEN " WHERE " \o Join(whereExpressions, " AND ") ELSE "")
    \o " ORDER BY title"

(***************************************************************************)
(* The store executing that statement.                                     *)
(***************************************************************************)
EndsWith(text, suffix) ==
    Len(text) >= Len(suffix)
    /\ SubSeq(text, Len(text) - Len(suffix) + 1, Len(text)) = suffix
DropSuffix(text, suffix) == SubSeq(text, 1, Len(text) - Len(suffix))

Predicates ==
    [kind : {"title ILIKE", "salary >=", "company_handle ="}, ph : Placeholders]
    \cup {[kind |-> "equity > 0", ph |-> 0]}
PredicateText(p) ==
    IF p.kind = "equity > 0" THEN p.kind ELSE p.kind \o " $" \o ToString(p.ph)
BadPredicate == <<[kind |-> "", ph |-> 0]>>

RECURSIVE ParseWhere(_)
ParseWhere(text) ==
    LET heads == {p \in Predicates :
                    /\ StartsWith(text, PredicateText(p))
                    /\ LET rest == DropPrefix(text, PredicateText(p))
                       IN rest = "" \/ StartsWith(rest, " AND ")}
    IN IF heads = {} THEN BadPredicate
       ELSE LET p == CHOOSE x \in heads : TRUE
                rest == DropPrefix(text, PredicateText(p))
            IN IF rest = "" THEN <<p>>
               ELSE LET more == ParseWhere(DropPrefix(rest, " AND "))
                    IN IF more = BadPredicate THEN BadPredicate ELSE <<p>> \o more

\* Characters in code-point order, and the letters in both cases.
CodePoints == "0123456789ABCDEFGHIJKLMNOPQRSTUVWXYZabcdefghijklmnopqrstuvwxyz"
UpperCase == "ABCDEFGHIJKLMNOPQRSTUVWXYZ"
LowerCase == "abcdefghijklmnopqrstuvwxyz"
IndexIn(alphabet, c) ==
    IF \E i \in 1..Len(alphabet) : SubSeq(alphabet, i, i) = c
    THEN CHOOSE i \in 1..Len(alphabet) : SubSeq(alphabet, i, i) = c
    ELSE 0

RECURSIVE ToLower(_)
ToLower(text) ==
    IF text = "" THEN ""
    ELSE LET c == SubSeq(text, 1, 1)
             i == IndexIn(UpperCase, c)
         IN (IF i > 0 THEN SubSeq(LowerCase, i, i) ELSE c) \o ToLower(Tail(text))

Contains(text, part) ==
    \E i \in 1..(Len(text) + 1) :
        i + Len(part) - 1 <= Len(text) /\ SubSeq(text, i, i + Len(part) - 1) = part

RECURSIVE LikeMatch(_, _)
\* text LIKE pattern: % stands for any run of characters, _ for any one
\* character, every other character for itself (the escape character \\ is
\* in none of the texts drawn).
LikeMatch(text, pattern) ==
    IF pattern = "" THEN text = ""
    ELSE LET p == SubSeq(pattern, 1, 1)
             rest == Tail(pattern)
         IN IF p = "%"
            THEN \E i \in 0..Len(text) : LikeMatch(SubSeq(text, i + 1, Len(text)), rest)
            ELSE IF text = "" THEN FALSE
            ELSE IF p = "_" THEN LikeMatch(Tail(text), rest)
            ELSE SubSeq(text, 1, 1) = p /\ LikeMatch(Tail(text), rest)

\* text ILIKE pattern: LIKE without regard to case.
ILike(text, pattern) == LikeMatch(ToLower(text), ToLower(pattern))

\* A row against one predicate; a comparison with NULL selects nothing.
Satisfies(row, p, params) ==
    CASE p.kind = "title ILIKE" -> ILike(row.title, params[p.ph].s)
      [] p.kind = "salary >=" -> row.salary # Null /\ row.salary.n >= params[p.ph].n
      [] p.kind = "equity > 0" -> row.equity # Null /\ parseFloat(row.equity).n > 0
      [] p.kind = "company_handle =" -> row.company_handle = params[p.ph].s

RECURSIVE TitleBefore(_, _)
\* a sorts strictly before b.
TitleBefore(a, b) ==
    IF b = "" THEN FALSE
    ELSE IF a = "" THEN TRUE
    ELSE LET x == IndexIn(CodePoints, SubSeq(a, 1, 1))
             y == IndexIn(CodePoints, SubSeq(b, 1, 1))
         IN x < y \/ (x = y /\ TitleBefore(Tail(a), Tail(b)))

\* The orders in which the rows of a set can be listed.
Listings(rows) ==
    {l \in [1..Cardinality(rows) -> rows] : \A i, j \in 1..Len(l) : l[i] = l[j] => i = j}

\* The statement's outcome: error, or the listings the store may hand back.
ExecSelect(table, query, params) ==
    LET ordered == EndsWith(query, " ORDER BY title")
        body == IF ordered THEN DropSuffix(query, " ORDER BY title") ELSE query
        filtered == StartsWith(body, SelectJobs \o " WHERE ")
        preds == IF filtered THEN ParseWhere(DropPrefix(body, SelectJobs \o " WHERE "))
                 ELSE <<>>
        wellFormed ==
            /\ filtered \/ body = SelectJobs
            /\ preds # BadPredicate
            /\ \A i \in 1..Len(preds) :
                  preds[i].kind = "equity > 0" \/ preds[i].ph \in 1..Len(params)
            /\ \A i \in 1..Len(preds) :
                  preds[i].kind = "salary >=" => params[preds[i].ph].t = "number"
        rows == {r \in table : \A i \in 1..Len(preds) : Satisfies(r, preds[i], params)}
    IN IF ~wellFormed THEN [error |-> TRUE, listings |-> {}]
       ELSE [error |-> FALSE,
             listings |-> {l \in Listings(rows) :
                             ordered => \A i, j \in 1..Len(l) :
                                           i < j => ~TitleBefore(l[j].title, l[i].title)}]

(***************************************************************************)
(* Job.findAll({ title, minSalary, hasEquity, companyHandle }).            *)
(***************************************************************************)
NoFindAll ==
    [filters |-> [title |-> Undefined, minSalary |-> Undefined,
                  hasEquity |-> Undefined, companyHandle |-> Undefined],
     whereExpressions |-> <<>>, queryValues |-> <<>>, query |-> "",
     status |-> "none", jobs |-> <<>>]

FindAll(filters) ==
    LET clauses == FindAllClauses(filters.title, filters.minSalary,
                                  filters.hasEquity, filters.companyHandle)
        query == FindAllQuery(clauses.whereExpressions)
        jobsRes == ExecSelect(jobs, query, clauses.queryValues)
        call == [filters |-> filters,
                 whereExpressions |-> clauses.whereExpressions,
                 queryValues |-> clauses.queryValues,
                 query |-> query, status |-> "DatabaseError", jobs |-> <<>>]
    IN /\ IF jobsRes.error THEN found' = call
          ELSE \E l \in jobsRes.listings :
                  found' = [call EXCEPT !.status = "return",
                                        !.jobs = [i \in 1..Len(l) |-> NormalizeEquity(l[i])]]
       /\ UNCHANGED <<jobs, jobSeq, inflight, response, removed>>

\* No request to authenticateJWT on its own, to GET /companies, and no
\* Job.update or Job.remove call in progress.
NotAuthenticated == [outcome |-> "pending", user |-> NoUser]
NotListed == [outcome |-> "pending", status |-> 0, message |-> "", statements |-> 0]
NoCall == [op |-> "none", id |-> 0, data |-> <<>>, existed |-> FALSE, outcome |-> "none",
           afterRemoval |-> FALSE]
NoOtherRequest ==
    /\ authorization = NoHeader
    /\ locals = NotAuthenticated
    /\ companyQuery = [name |-> Undefined, minEmployees |-> Undefined, maxEmployees |-> Undefined]
    /\ companyList = NotListed
    /\ calls = [h \in Handlers |-> NoCall]

StoreInit ==
    /\ jobs = {}
    /\ jobSeq = 0
    /\ inflight = [h \in Handlers |-> Idle]
    /\ response = Respond("none", "", NoRow)
    /\ removed = {}
    /\ found = NoFindAll
    /\ served = "none"
    /\ NoOtherRequest

(***************************************************************************)
(* The helper on its own: the arguments are drawn, then the call is made.  *)
(***************************************************************************)
FieldKeys == {"firstName", "lastName", "age", "title", "toString"}
FieldValues == {Str("John"), Num(30)}
FieldMaps ==
    {m \in UNION {[1..n -> [k : FieldKeys, v : FieldValues]] : n \in 0..MaxKeys} :
        \A i, j \in 1..Len(m) : m[i].k = m[j].k => i = j}
Mappings == {<<>>, <<[k |-> "firstName", v |-> Str("first_name")]>>, JobJsToSql}

NotCalled ==
    [kind |-> "pending", error |-> "", message |-> "", setCols |-> "", values |-> <<>>]

SqlInit ==
    /\ dataToUpdate \in FieldMaps
    /\ jsToSql \in Mappings
    /\ sqlResult = NotCalled
    /\ StoreInit

CallSqlForPartialUpdate ==
    /\ sqlResult.kind = "pending"
    /\ sqlResult' = sqlForPartialUpdate(dataToUpdate, jsToSql)
    /\ UNCHANGED <<dataToUpdate, jsToSql>>
    /\ UNCHANGED <<storeVars, found, served, authVars, companyVars, calls>>

SqlNext == CallSqlForPartialUpdate

SpecSql == SqlInit /\ [][SqlNext]_vars

(***************************************************************************)
(* authenticateJWT on its own: a request is drawn, then the middleware     *)
(* runs.  Both the end of the try block and the catch block call next()    *)
(* without an argument.                                                    *)
(***************************************************************************)
Schemes == {"Bearer", "bearer", "BEARER", "Basic", ""}
SigningKeys == {SECRET_KEY, "forged", "other", ""}
AuthorizationHeaders ==
    {NoHeader}
    \cup {Header(scheme, key, isAdmin) :
             scheme \in Schemes, key \in SigningKeys,
             isAdmin \in {Bool(TRUE), Bool(FALSE), Undefined}}

AuthInit ==
    /\ dataToUpdate = <<>>
    /\ jsToSql = <<>>
    /\ sqlResult = NotCalled
    /\ jobs = {}
    /\ jobSeq = 0
    /\ inflight = [h \in Handlers |-> Idle]
    /\ response = Respond("none", "", NoRow)
    /\ removed = {}
    /\ found = NoFindAll
    /\ served = "none"
    /\ authorization \in AuthorizationHeaders
    /\ locals = NotAuthenticated
    /\ companyQuery = [name |-> Undefined, minEmployees |-> Undefined, maxEmployees |-> Undefined]
    /\ companyList = NotListed
    /\ calls = [h \in Handlers |-> NoCall]

CallAuthenticateJWT ==
    /\ locals.outcome = "pending"
    /\ locals' = [outcome |-> "next", user |-> authenticateJWT(authorization)]
    /\ UNCHANGED <<sqlVars, storeVars, found, served, authorization, companyVars, calls>>

AuthNext == CallAuthenticateJWT

SpecAuth == AuthInit /\ [][AuthNext]_vars

(***************************************************************************)
(* GET /companies on its own: a query is drawn, then the request is        *)
(* served.  The range check comes before Company.findAll sends its         *)
(* statement.                                                              *)
(***************************************************************************)
MaxEmployees == 3

EmployeeCounts == {Undefined} \cup {Num(k) : k \in 0..MaxEmployees}
CompanyQueries ==
    [name : {Undefined, Str("net"), Str("c")},
     minEmployees : EmployeeCounts,
     maxEmployees : EmployeeCounts]

\* A plausible slip: the range checked once Company.findAll has run.
ListCompaniesCheckedLate(query) ==
    IF /\ query.minEmployees # Undefined
       /\ query.maxEmployees # Undefined
       /\ query.minEmployees.n > query.maxEmployees.n
    THEN [outcome |-> "BadRequestError", status |-> 400,
          message |-> "minEmployees cannot be greater than maxEmployees.", statements |-> 1]
    ELSE [outcome |-> "return", status |-> 200, message |-> "", statements |-> 1]

\* The request's outcome and the number of statements sent to the store.
ListCompanies(query) ==
    IF /\ query.minEmployees # Undefined
       /\ query.maxEmployees # Undefined
       /\ query.minEmployees.n > query.maxEmployees.n
    THEN [outcome |-> "BadRequestError", status |-> 400,
          message |-> "minEmployees cannot be greater than maxEmployees.", statements |-> 0]
    ELSE [outcome |-> "return", status |-> 200, message |-> "", statements |-> 1]

CompaniesInit ==
    /\ dataToUpdate = <<>>
    /\ jsToSql = <<>>
    /\ sqlResult = NotCalled
    /\ jobs = {}
    /\ jobSeq = 0
    /\ inflight = [h \in Handlers |-> Idle]
    /\ response = Respond("none", "", NoRow)
    /\ removed = {}
    /\ found = NoFindAll
    /\ served = "none"
    /\ authorization = NoHeader
    /\ locals = NotAuthenticated
    /\ companyQuery \in CompanyQueries
    /\ companyList = NotListed
    /\ calls = [h \in Handlers |-> NoCall]

GetCompanies ==
    /\ companyList.outcome = "pending"
    /\ companyList' = ListCompanies(companyQuery)
    /\ UNCHANGED <<sqlVars, storeVars, found, served, authVars, companyQuery, calls>>

CompaniesNext == GetCompanies

SpecCompanies == CompaniesInit /\ [][CompaniesNext]_vars

(***************************************************************************)
(* The application: requests arrive at any handler, in any order.          *)
(***************************************************************************)
Init ==
    /\ dataToUpdate = <<>>
    /\ jsToSql = <<>>
    /\ sqlResult = NotCalled
    /\ StoreInit

Next ==
    \/ \E h \in Handlers : \E req \in PostRequests :
          PostJob(h, req.header, req.body)
          /\ served' = "POST /" /\ UNCHANGED <<sqlVars, found, authVars, companyVars, calls>>
    \/ \E h \in Handlers : CreateInsert(h)
          /\ served' = "POST /" /\ UNCHANGED <<sqlVars, found, authVars, companyVars, calls>>
    \/ \E req \in PatchRequests :
          PatchJob(req.header, req.id, req.body)
          /\ served' = "PATCH /:id" /\ UNCHANGED <<sqlVars, found, authVars, companyVars, calls>>
    \/ \E req \in DeleteRequests :
          DeleteJob(req.header, req.id)
          /\ served' = "DELETE /:id" /\ UNCHANGED <<sqlVars, found, authVars, companyVars, calls>>
    \/ \E id \in Ids : GetJob(id)
          /\ served' = "GET /:id" /\ UNCHANGED <<sqlVars, found, authVars, companyVars, calls>>

Spec == Init /\ [][Next]_vars

(***************************************************************************)
(* Job.findAll on its own: a table is drawn, then calls are made.          *)
(***************************************************************************)
JobPool ==
    {[id |-> 1, title |-> "Job1", salary |-> Num(1), equity |-> Str("0"), company_handle |-> "c1"],
     [id |-> 2, title |-> "job2", salary |-> Num(2), equity |-> Str("1"), company_handle |-> "c2"],
     [id |-> 3, title |-> "Dev", salary |-> Null, equity |-> Null, company_handle |-> "c1"],
     [id |-> 4, title |-> "Job1", salary |-> Num(2), equity |-> Str("1"), company_handle |-> "c2"]}

Filters ==
    [title : {Undefined, Str(""), Str("JOB"), Str("1"), Str("j_b")},
     minSalary : {Undefined, Num(0), Num(2)},
     hasEquity : {Undefined, Bool(FALSE), Bool(TRUE)},
     companyHandle : {Undefined, Str(""), Str("c1")}]

FindInit ==
    /\ dataToUpdate = <<>>
    /\ jsToSql = <<>>
    /\ sqlResult = NotCalled
    /\ jobs \in SUBSET JobPool
    /\ jobSeq = 4
    /\ inflight = [h \in Handlers |-> Idle]
    /\ response = Respond("none", "", NoRow)
    /\ removed = {}
    /\ found = NoFindAll
    /\ served = "none"
    /\ NoOtherRequest

\* One call per drawn table: its outcome depends on nothing but the table.
FindNext ==
    /\ found.status = "none"
    /\ \E filters \in Filters : FindAll(filters) /\ UNCHANGED sqlVars
    /\ served' = "GET /"
    /\ UNCHANGED <<authVars, companyVars, calls>>

SpecFind == FindInit /\ [][FindNext]_vars

(***************************************************************************)
(* The application serving one request at a time.                          *)
(***************************************************************************)
NoCallPending == \A h \in Handlers : inflight[h] = Idle

SeqNext ==
    \/ NoCallPending /\ \E req \in PostRequests :
          PostJob("h1", req.header, req.body)
          /\ served' = "POST /" /\ UNCHANGED <<sqlVars, found, authVars, companyVars, calls>>
    \/ CreateInsert("h1")
          /\ served' = "POST /" /\ UNCHANGED <<sqlVars, found, authVars, companyVars, calls>>
    \/ NoCallPending /\ \E req \in PatchRequests :
          PatchJob(req.header, req.id, req.body)
          /\ served' = "PATCH /:id" /\ UNCHANGED <<sqlVars, found, authVars, companyVars, calls>>
    \/ NoCallPending /\ \E req \in DeleteRequests :
          DeleteJob(req.header, req.id)
          /\ served' = "DELETE /:id" /\ UNCHANGED <<sqlVars, found, authVars, companyVars, calls>>
    \/ NoCallPending /\ \E id \in Ids : GetJob(id)
          /\ served' = "GET /:id" /\ UNCHANGED <<sqlVars, found, authVars, companyVars, calls>>

SpecSeq == Init /\ [][SeqNext]_vars

(***************************************************************************)
(* Claims about the helper.                                                *)
(***************************************************************************)
\* Every text a column name can take for the drawn arguments.
ColumnTexts ==
    FieldKeys \cup {TemplateText(jsToSql[i].v) : i \in 1..Len(jsToSql)}
              \cup {TemplateText(ObjectPrototype[i].v) : i \in 1..Len(ObjectPrototype)}

\* C1: for a non-empty field map the result has one `"col"=$i` entry per key,
\* the i-th carrying placeholder $i, and values[i] is the value of the i-th key.
C1_PlaceholdersAlignWithValues ==
    (sqlResult.kind # "pending" /\ Len(dataToUpdate) > 0) =>
        LET n == Len(dataToUpdate) IN
        /\ sqlResult.kind = "return"
        /\ Len(sqlResult.values) = n
        /\ \A i \in 1..n : sqlResult.values[i] = dataToUpdate[i].v
        /\ \E cs \in [1..n -> ColumnTexts] :
              sqlResult.setCols =
                  Join([i \in 1..n |-> "\"" \o cs[i] \o "\"=$" \o ToString(i)], ", ")

C1_Witness ==
    /\ dataToUpdate = <<[k |-> "firstName", v |-> Str("John")], [k |-> "age", v |-> Num(30)]>>
    /\ jsToSql = <<[k |-> "firstName", v |-> Str("first_name")]>>
    /\ sqlResult.setCols = "\"first_name\"=$1, \"age\"=$2"
    /\ sqlResult.values = <<Str("John"), Num(30)>>

\* C2: the call throws BadRequestError exactly when the field map has no keys;
\* otherwise it returns.
C2_ThrowsIffEmpty ==
    sqlResult.kind # "pending" =>
        /\ sqlResult.kind \in {"throw", "return"}
        /\ (sqlResult.kind = "throw") <=> (Len(dataToUpdate) = 0)
        /\ sqlResult.kind = "throw" => sqlResult.error = "BadRequestError"

C2_Witness ==
    /\ Len(dataToUpdate) = 0
    /\ sqlResult.kind = "throw"
    /\ sqlResult.error = "BadRequestError"

\* C3: a key with no entry in jsToSql is emitted under its own name, a key
\* with an entry under the mapped name.
C3_ColumnNameMappedOrIdentity ==
    sqlResult.kind = "return" =>
        sqlResult.setCols =
            Join([i \in 1..Len(dataToUpdate) |->
                    "\"" \o (IF HasOwn(jsToSql, dataToUpdate[i].k)
                             THEN jsToSql[CHOOSE j \in 1..Len(jsToSql) :
                                            jsToSql[j].k = dataToUpdate[i].k].v.s
                             ELSE dataToUpdate[i].k)
                         \o "\"=$" \o ToString(i)], ", ")

(***************************************************************************)
(* Claims about Job.findAll's statement.                                   *)
(***************************************************************************)
CountTrue(flags) == Cardinality({i \in 1..Len(flags) : flags[i]})
HasWhere(query) == Contains(query, " WHERE ")

\* C4 as stated: the number of predicate fragments equals the number of
\* criteria that are not undefined, and with none given there is no WHERE.
C4_FragmentPerPresentCriterion ==
    found.status # "none" =>
        LET f == found.filters
            present == CountTrue(<<f.title # Undefined, f.minSalary # Undefined,
                                   f.hasEquity # Undefined, f.companyHandle # Undefined>>)
        IN /\ Len(found.whereExpressions) = present
           /\ HasWhere(found.query) <=> present > 0

\* C4 amended: the number of predicate fragments equals the number of
\* criteria in effect (title and companyHandle non-empty text, minSalary not
\* undefined, hasEquity exactly true), and the statement has a WHERE clause
\* exactly when at least one is in effect.
C4_FragmentPerCriterionInEffect ==
    found.status # "none" =>
        LET f == found.filters
            inEffect == CountTrue(<<f.title.t = "string" /\ f.title.s # "",
                                    f.minSalary.t # "undefined",
                                    f.hasEquity.t = "boolean" /\ f.hasEquity.n = 1,
                                    f.companyHandle.t = "string" /\ f.companyHandle.s # "">>)
        IN /\ Len(found.whereExpressions) = inEffect
           /\ HasWhere(found.query) <=> inEffect > 0
           /\ inEffect = 0 => found.query = SelectJobs \o " ORDER BY title"

C4_Witness ==
    /\ found.status = "return"
    /\ found.filters.hasEquity = Bool(FALSE)
    /\ found.filters.minSalary = Num(0)
    /\ found.filters.title = Undefined
    /\ found.filters.companyHandle = Str("c1")
    /\ found.whereExpressions = <<"salary >= $1", "company_handle = $2">>

(***************************************************************************)
(* Claims about the job routes and the Job model.                          *)
(***************************************************************************)
SameJob(r1, r2) == r1.title = r2.title /\ r1.company_handle = r2.company_handle
IdsOf(table) == {r.id : r \in table}

\* C5: no two stored jobs share the same (title, company_handle) pair.
C5_TitleUniquePerCompany ==
    \A r1, r2 \in jobs : SameJob(r1, r2) => r1 = r2

\* The body names a title and company a stored job already has.
NamesStoredJob(body) ==
    \E r \in jobs :
        /\ GetProp(body, "title") = Str(r.title)
        /\ GetProp(body, "company_handle") = Str(r.company_handle)

\* The requests that get as far as Job.create: an admin's, with a valid body.
CreateCalls ==
    {req \in PostRequests : req.header = AdminHeader /\ ValidJobNew(req.body)}

\* C6: Job.create for a (title, company_handle) some stored job already has
\* fails with BadRequestError, issues no INSERT and leaves the table as it was.
C6_DuplicateCreateRejected ==
    [][served' = "POST /" =>
       \A req \in CreateCalls :
          NamesStoredJob(req.body) =>
             \A h \in Handlers :
                PostJob(h, req.header, req.body)
                => /\ response'.status = "BadRequestError"
                   /\ jobs' = jobs
                   /\ jobSeq' = jobSeq
                   /\ inflight' = inflight]_vars

C6_Witness ==
    /\ response.status = "BadRequestError"
    /\ response.message = "Duplicate job: t1 already exists for company: c1"
    /\ \E r \in jobs : r.title = "t1" /\ r.company_handle = "c1"

\* The request carries a token signed with the secret key whose payload has
\* isAdmin true.
VerifiedAdmin(header) ==
    /\ header.present
    /\ header.key = SECRET_KEY
    /\ header.isAdmin = Bool(TRUE)

Untouched ==
    /\ jobs' = jobs
    /\ jobSeq' = jobSeq
    /\ inflight' = inflight
    /\ removed' = removed

\* C7: a job write request of anyone but a verified admin ends with
\* Unauthorized, starts no model call and leaves the stored jobs as they were.
C7_WritesNeedAdmin ==
    [][/\ served' = "POST /" =>
             \A h \in Handlers : \A req \in PostRequests :
                (~VerifiedAdmin(req.header) /\ PostJob(h, req.header, req.body))
                => (response'.status = "UnauthorizedError" /\ Untouched)
       /\ served' = "PATCH /:id" =>
             \A req \in PatchRequests :
                (~VerifiedAdmin(req.header) /\ PatchJob(req.header, req.id, req.body))
                => (response'.status = "UnauthorizedError" /\ Untouched)
       /\ served' = "DELETE /:id" =>
             \A req \in DeleteRequests :
                (~VerifiedAdmin(req.header) /\ DeleteJob(req.header, req.id))
                => (response'.status = "UnauthorizedError" /\ Untouched)]_vars

C7_Witness ==
    /\ response.status = "UnauthorizedError"
    /\ jobs # {}

\* The requests that get as far as Job.update: an admin's, with a valid body.
UpdateCalls ==
    {req \in PatchRequests : req.header = AdminHeader /\ ValidJobUpdate(req.body)}

\* C8 as stated: an id Job.remove has deleted never names a stored job again,
\* and every later get, update and remove of it fails with NotFound.
C8_EveryLaterCallNotFound ==
    [][/\ \A id \in removed' : SelectById(jobs', id) = {}
       /\ response'.status # "NotFoundError" =>
             \A id \in removed :
                /\ ~GetJob(id)
                /\ ~DeleteJob(AdminHeader, id)
                /\ \A req \in UpdateCalls :
                      req.id = id => ~PatchJob(req.header, req.id, req.body)]_vars

\* C8 amended: an id Job.remove has deleted never names a stored job again;
\* every later get and remove of it, and every later update of it with data
\* naming a field, fails with NotFound; a later update with empty data fails
\* with BadRequestError.
C8_DeletedStaysDeleted ==
    [][/\ \A id \in removed' : SelectById(jobs', id) = {}
       /\ response'.status # "NotFoundError" =>
             \A id \in removed :
                /\ ~GetJob(id)
                /\ ~DeleteJob(AdminHeader, id)
                /\ \A req \in UpdateCalls :
                      (req.id = id /\ Len(req.body) > 0)
                      => ~PatchJob(req.header, req.id, req.body)
       /\ response'.status # "BadRequestError" =>
             \A id \in removed : \A req \in UpdateCalls :
                (req.id = id /\ Len(req.body) = 0)
                => ~PatchJob(req.header, req.id, req.body)]_vars

C8_Witness ==
    /\ removed # {}
    /\ jobSeq = MaxId
    /\ response.status = "NotFoundError"
    /\ \E id \in removed : response.message = "No job: " \o ToString(id)

\* C9: no two stored jobs have the same id, the id Job.create assigns is new,
\* no update request changes the ids in the table, and an admin's update
\* request naming id ends with BadRequestError and changes nothing.
C9_IdUniqueAndImmutable ==
    [][/\ \A r1, r2 \in jobs' : r1.id = r2.id => r1 = r2
       /\ \A h \in Handlers :
             CreateInsert(h) =>
                \E job \in jobs' \ jobs : job.id \notin IdsOf(jobs) /\ jobs' = jobs \cup {job}
       /\ (served' = "PATCH /:id" /\ IdsOf(jobs') # IdsOf(jobs)) =>
             \A req \in PatchRequests : ~PatchJob(req.header, req.id, req.body)
       /\ served' = "PATCH /:id" =>
             \A req \in PatchRequests :
                (/\ req.header = AdminHeader /\ HasOwn(req.body, "id")
                 /\ PatchJob(req.header, req.id, req.body))
                => (response'.status = "BadRequestError" /\ jobs' = jobs)]_vars

C9_Witness ==
    /\ response.status = "BadRequestError"
    /\ response.message = "jobUpdate: instance is not valid"
    /\ Cardinality(jobs) = 2

\* The record handed back for a stored row: the same fields, the equity read
\* as the number its decimal text writes.
ReturnedFor(ret, row) ==
    /\ ret.id = row.id
    /\ ret.title = row.title
    /\ ret.salary = row.salary
    /\ ret.company_handle = row.company_handle
    /\ \/ row.equity = Null /\ ret.equity = Null
       \/ /\ row.equity # Null
          /\ ret.equity.t = "number"
          /\ ToString(ret.equity.n) = row.equity.s

\* The step leaves every job but the one with this id as it was, leaves the
\* fields of that job that data does not name as they were, and the record
\* in the response is that job as stored after the step.
UpdateFrame(id, data) ==
    /\ {r \in jobs : r.id # id} = {r \in jobs' : r.id # id}
    /\ \E old \in jobs, new \in jobs' :
          /\ old.id = id /\ new.id = id
          /\ \A r \in jobs' : r.id = id => r = new
          /\ \A f \in JobColumns : ~HasOwn(data, f) => new[f] = old[f]
          /\ ReturnedFor(response'.job, new)

\* C10: a successful Job.update(id, data) changes only the fields data names
\* on the job with that id, changes no other job, and returns the job's record
\* as stored after the update.
C10_UpdateChangesNamedFieldsOnly ==
    [][(served' = "PATCH /:id" /\ response'.status = "200") =>
          \A req \in PatchRequests :
             ~UpdateFrame(req.id, req.body) => ~PatchJob(req.header, req.id, req.body)]_vars

C10_Witness ==
    /\ response.status = "200"
    /\ response.message = ""
    /\ response.job.salary = Num(2)
    /\ response.job.title = "t2"
    /\ response.job.equity = Num(1)
    /\ Cardinality(jobs) = 2
    /\ \E r \in jobs : r.id = response.job.id /\ r.salary = Num(2) /\ r.equity = Str("1")

\* The stored jobs with this id.
StoredWith(id) == {r \in jobs : r.id = id}

\* C11: Job.update(id, data) with non-empty data fails with NotFound exactly
\* when no stored job has that id, and then leaves the stored jobs as they were.
C11_UpdateNotFoundIffAbsent ==
    [][served' = "PATCH /:id" =>
          \A req \in UpdateCalls :
             Len(req.body) > 0 =>
                \/ /\ (response'.status = "NotFoundError") <=> (StoredWith(req.id) = {})
                   /\ StoredWith(req.id) = {} => jobs' = jobs
                \/ ~PatchJob(req.header, req.id, req.body)]_vars

C11_Witness ==
    /\ served = "PATCH /:id"
    /\ response.status = "NotFoundError"
    /\ response.message = "No job: 2"
    /\ jobs # {}
    /\ StoredWith(2) = {}

\* C12: Job.remove(id) deletes the one job with that id and leaves every other
\* job as it was; when no job has that id it fails with NotFound and leaves
\* the stored jobs as they were.
C12_RemoveDeletesExactlyThatJob ==
    [][served' = "DELETE /:id" =>
          \A id \in Ids :
             DeleteJob(AdminHeader, id) =>
                IF StoredWith(id) = {}
                THEN response'.status = "NotFoundError" /\ jobs' = jobs
                ELSE /\ response'.status = "200"
                     /\ Cardinality(StoredWith(id)) = 1
                     /\ jobs' = jobs \ StoredWith(id)]_vars

C12_Witness ==
    /\ served = "DELETE /:id"
    /\ response.status = "200"
    /\ response.job.id = 1
    /\ StoredWith(1) = {}
    /\ StoredWith(2) # {}

\* C13: Job.get(id) returns the stored record of the job with that id, fails
\* with NotFound exactly when no stored job has that id, and changes nothing.
C13_GetReturnsStoredOrNotFound ==
    [][served' = "GET /:id" =>
          \A id \in Ids :
             GetJob(id) =>
                /\ Untouched
                /\ (response'.status = "NotFoundError") <=> (StoredWith(id) = {})
                /\ \A r \in StoredWith(id) :
                      response'.status = "200" /\ ReturnedFor(response'.job, r)]_vars

C13_Witness ==
    /\ served = "GET /:id"
    /\ response.status = "200"
    /\ response.job.id = 2
    /\ response.job.equity = Num(1)
    /\ Cardinality(jobs) = 2

\* C17: Job.update(id, data) with empty data fails with BadRequestError
\* ("No data") whether or not a job with that id is stored, and leaves the
\* stored jobs as they were.
C17_EmptyUpdateIsBadRequest ==
    [][served' = "PATCH /:id" =>
          \A req \in UpdateCalls :
             (Len(req.body) = 0 /\ PatchJob(req.header, req.id, req.body))
             => /\ response'.status = "BadRequestError"
                /\ response'.message = "No data"
                /\ Untouched]_vars

C17_Witness ==
    /\ served = "PATCH /:id"
    /\ response.status = "BadRequestError"
    /\ response.message = "No data"
    /\ jobs # {}
    /\ removed # {}

(***************************************************************************)
(* Claims about what Job.findAll returns.                                  *)
(***************************************************************************)
\* The criteria of a call that are in effect.
TitleGiven(f) == f.title.t = "string" /\ f.title.s # ""
SalaryGiven(f) == f.minSalary.t # "undefined"
EquityGiven(f) == f.hasEquity.t = "boolean" /\ f.hasEquity.n = 1
CompanyGiven(f) == f.companyHandle.t = "string" /\ f.companyHandle.s # ""

\* The job satisfies every criterion of f that is in effect, as the claim
\* words them.
Matches(r, f) ==
    /\ TitleGiven(f) => Contains(ToLower(r.title), ToLower(f.title.s))
    /\ SalaryGiven(f) => (r.salary.t = "number" /\ r.salary.n >= f.minSalary.n)
    /\ EquityGiven(f) => (r.equity.t = "string" /\ r.equity.s # "0")
    /\ CompanyGiven(f) => r.company_handle = f.companyHandle.s

\* C14: Job.findAll returns, without an error, exactly the stored jobs that
\* satisfy every criterion given: each once, none else.
C14_FindAllReturnsExactlyMatches ==
    found.status # "none" =>
        /\ found.status = "return"
        /\ Len(found.jobs) = Cardinality({r \in jobs : Matches(r, found.filters)})
        /\ \A r \in jobs :
              Matches(r, found.filters)
              <=> \E i \in 1..Len(found.jobs) : ReturnedFor(found.jobs[i], r)

\* C15: the sequence Job.findAll returns is sorted by title, ascending.
C15_FindAllSortedByTitle ==
    found.status # "none" =>
        /\ found.status = "return"
        /\ \A i, j \in 1..Len(found.jobs) :
              i < j => ~TitleBefore(found.jobs[j].title, found.jobs[i].title)

C15_Witness ==
    /\ found.status = "return"
    /\ Len(found.jobs) = 4
    /\ found.jobs[1].title = "Dev"
    /\ found.jobs[4].title = "job2"

\* The n-th of the criteria that bind a value: its predicate.
ValuePredicate(kind, n) == kind \o " $" \o ToString(n)

\* C18: the predicates stand in the order title, minSalary, hasEquity,
\* companyHandle; those that bind a value use $1..$n in that order, n the
\* length of the value list, whose k-th entry is the value bound to $k;
\* hasEquity adds 'equity > 0' and neither a placeholder nor a value.
C18_PlaceholdersFollowCriteriaOrder ==
    found.status # "none" =>
        LET f == found.filters
            n1 == IF TitleGiven(f) THEN 1 ELSE 0
            n2 == n1 + (IF SalaryGiven(f) THEN 1 ELSE 0)
            n3 == n2 + (IF CompanyGiven(f) THEN 1 ELSE 0)
        IN /\ found.whereExpressions =
                (IF TitleGiven(f) THEN <<ValuePredicate("title ILIKE", n1)>> ELSE <<>>)
                \o (IF SalaryGiven(f) THEN <<ValuePredicate("salary >=", n2)>> ELSE <<>>)
                \o (IF EquityGiven(f) THEN <<"equity > 0">> ELSE <<>>)
                \o (IF CompanyGiven(f) THEN <<ValuePredicate("company_handle =", n3)>> ELSE <<>>)
           /\ found.queryValues =
                (IF TitleGiven(f) THEN <<Str("%" \o f.title.s \o "%")>> ELSE <<>>)
                \o (IF SalaryGiven(f) THEN <<f.minSalary>> ELSE <<>>)
                \o (IF CompanyGiven(f) THEN <<f.companyHandle>> ELSE <<>>)
           /\ Len(found.queryValues) = n3

C18_Witness ==
    /\ found.status = "return"
    /\ found.whereExpressions =
          <<"title ILIKE $1", "salary >= $2", "equity > 0", "company_handle = $3">>
    /\ found.queryValues = <<Str("%JOB%"), Num(2), Str("c1")>>

(***************************************************************************)
(* Job.remove and Job.update called by two handlers at the same time.      *)
(* Each call sends one statement and awaits it: a handler enters its call, *)
(* and later the store runs the statement and the call returns or throws.  *)
(* The steps of the two handlers interleave freely.                        *)
(***************************************************************************)
RaceJobs ==
    {[id |-> 1, title |-> "t1", salary |-> Num(1), equity |-> Str("0"), company_handle |-> "c1"],
     [id |-> 2, title |-> "t2", salary |-> Num(1), equity |-> Null, company_handle |-> "c1"]}

RaceData == {Obj1("salary", Num(2)), Obj2("equity", Num(1), "title", Str("t2"))}

RaceInit ==
    /\ dataToUpdate = <<>>
    /\ jsToSql = <<>>
    /\ sqlResult = NotCalled
    /\ jobs = RaceJobs
    /\ jobSeq = 2
    /\ inflight = [h \in Handlers |-> Idle]
    /\ response = Respond("none", "", NoRow)
    /\ removed = {}
    /\ found = NoFindAll
    /\ served = "none"
    /\ NoOtherRequest

\* A handler enters Job.remove(id) or Job.update(id, data).
EnterCall(h, op, id, data) ==
    /\ calls[h] = NoCall
    /\ calls' = [calls EXCEPT ![h] = [op |-> op, id |-> id, data |-> data,
                                      existed |-> \E r \in jobs : r.id = id,
                                      outcome |-> "pending", afterRemoval |-> FALSE]]
    /\ UNCHANGED <<sqlVars, storeVars, found, served, authVars, companyVars>>

\* The call of handler h is over: what it returned or threw, and whether a
\* Job.remove of the same id had succeeded by then.
CallOver(h) ==
    calls' = [calls EXCEPT ![h].outcome = response'.status,
                           ![h].afterRemoval =
                               \E g \in Handlers \ {h} :
                                   /\ calls[g].op = "remove"
                                   /\ calls[g].id = calls[h].id
                                   /\ calls[g].outcome = "200"]

\* The statement of a pending Job.remove runs and the call ends.
RemoveStatement(h) ==
    /\ calls[h].op = "remove"
    /\ calls[h].outcome = "pending"
    /\ DeleteJob(AdminHeader, calls[h].id)
    /\ CallOver(h)
    /\ served' = "DELETE /:id"
    /\ UNCHANGED <<sqlVars, found, authVars, companyVars>>

\* The statement of a pending Job.update runs and the call ends.
UpdateStatement(h) ==
    /\ calls[h].op = "update"
    /\ calls[h].outcome = "pending"
    /\ Update(calls[h].id, calls[h].data)
    /\ CallOver(h)
    /\ served' = "PATCH /:id"
    /\ UNCHANGED <<sqlVars, found, authVars, companyVars>>

RaceNext ==
    \/ \E h \in Handlers : \E id \in Ids : EnterCall(h, "remove", id, <<>>)
    \/ \E h \in Handlers : \E id \in Ids : \E data \in RaceData : EnterCall(h, "update", id, data)
    \/ \E h \in Handlers : RemoveStatement(h)
    \/ \E h \in Handlers : UpdateStatement(h)

SpecRace == RaceInit /\ [][RaceNext]_vars

(***************************************************************************)
(* Claims about GET /companies and authenticateJWT.                        *)
(***************************************************************************)
\* C16: a company list request whose minEmployees is greater than its
\* maxEmployees ends with BadRequestError (status 400) and the message
\* "minEmployees cannot be greater than maxEmployees.", and no statement has
\* been sent to the store.
C16_MinAboveMaxRejectedBeforeStore ==
    (/\ companyList.outcome # "pending"
     /\ companyQuery.minEmployees.t = "number"
     /\ companyQuery.maxEmployees.t = "number"
     /\ companyQuery.minEmployees.n > companyQuery.maxEmployees.n)
    => /\ companyList.outcome = "BadRequestError"
       /\ companyList.status = 400
       /\ companyList.message = "minEmployees cannot be greater than maxEmployees."
       /\ companyList.statements = 0

C16_Witness ==
    /\ companyQuery.minEmployees = Num(2)
    /\ companyQuery.maxEmployees = Num(1)
    /\ companyList.status = 400
    /\ companyList.statements = 0

\* C19: authenticateJWT always passes the request on; without a header, or
\* with a token that does not verify, no user is set; a user is set only
\* for a token signed with the secret key.
C19_AuthenticateNeverFails ==
    locals.outcome # "pending" =>
        /\ locals.outcome = "next"
        /\ ~authorization.present => locals.user = NoUser
        /\ (authorization.present /\ authorization.key # SECRET_KEY) => locals.user = NoUser
        /\ (authorization.present /\ authorization.scheme \notin {"Bearer", "bearer", ""})
              => locals.user = NoUser
        /\ locals.user.present =>
              /\ authorization.present
              /\ authorization.key = SECRET_KEY
              /\ locals.user.isAdmin = authorization.isAdmin

C19_Witness ==
    /\ locals.outcome = "next"
    /\ authorization = Header("Bearer", "forged", Bool(TRUE))
    /\ locals.user = NoUser

(***************************************************************************)
(* Claims about calls racing on one job.                                   *)
(***************************************************************************)
Over(h) == calls[h].op # "none" /\ calls[h].outcome # "pending"

\* Both handlers entered their call while the job was stored, on the same id.
RacingOn(g, h) ==
    /\ g # h
    /\ calls[g].id = calls[h].id
    /\ calls[g].existed
    /\ calls[h].existed

\* C20: of two Job.remove calls racing on a stored job exactly one succeeds
\* and the other throws NotFoundError, and the job is absent afterwards; a
\* Job.update racing with a Job.remove either succeeds before the removal or
\* throws NotFoundError after it, and once the removal has succeeded the job
\* is absent.
C20_RacingCallsLeaveJobAbsent ==
    \A g, h \in Handlers :
        (RacingOn(g, h) /\ calls[g].op = "remove") =>
            /\ (Over(g) /\ calls[g].outcome = "200") => StoredWith(calls[g].id) = {}
            /\ (calls[h].op = "remove" /\ Over(g) /\ Over(h)) =>
                  /\ {calls[g].outcome, calls[h].outcome} = {"200", "NotFoundError"}
                  /\ StoredWith(calls[g].id) = {}
            /\ (calls[h].op = "remove" /\ Over(g) /\ ~Over(h)) => calls[g].outcome = "200"
            /\ (calls[h].op = "update" /\ Over(h)) =>
                  \/ calls[h].outcome = "200" /\ ~calls[h].afterRemoval
                  \/ calls[h].outcome = "NotFoundError" /\ calls[h].afterRemoval

C20_Witness ==
    /\ RacingOn("h1", "h2")
    /\ calls["h1"].op = "remove" /\ calls["h1"].outcome = "NotFoundError"
    /\ calls["h2"].op = "remove" /\ calls["h2"].outcome = "200"

C20_UpdateLosesRace ==
    /\ RacingOn("h1", "h2")
    /\ calls["h1"].op = "remove" /\ calls["h1"].outcome = "200"
    /\ calls["h2"].op = "update" /\ calls["h2"].outcome = "NotFoundError"

C20_UpdateWinsRace ==
    /\ RacingOn("h1", "h2")
    /\ calls["h1"].op = "remove" /\ calls["h1"].outcome = "200"
    /\ calls["h2"].op = "update" /\ calls["h2"].outcome = "200"

====
